---- MODULE Spec2Model ----
(***************************************************************************)
(* A model of the query builder of drtheuns/typescript_querybuilder:       *)
(* FilterBuilder (src/src/User.ts), the tree of boolean groups it builds   *)
(* and the string build() makes of it, Query.select / buildSelect          *)
(* (src/unnamed/part_002), and Query.sort / formatSort / request of both   *)
(* Query classes (src/src/Query.ts, src/unnamed/part_002).                 *)
(*                                                                         *)
(* Text is a TLA+ string; the character at position i of s is              *)
(* SubSeq(s, i, i).  Builders live in a heap indexed 1..Len(and_or);       *)
(* builder 1 is the one the caller constructed.                            *)
(***************************************************************************)
EXTENDS FiniteSets, Integers, Sequences, TLC

VARIABLES
  and_or,       \* and_or[b]: the field and_or of builder b
  expressions,  \* expressions[b]: the field expressions of builder b
  stack,        \* the addBooleanExpr calls whose callback is running, innermost first
  trace,        \* the constructor call and the calls that built the tree, in order
  built,        \* <<>>, or <<[this, ret, again]>>: the last call was this.build(), it
                \* returned ret, and (again) the call before it was this.build() too
  leafIn,       \* an Expression handed to buildExpression
  leafOut,      \* <<>> or <<the string buildExpression returned for leafIn>>
  selectIn,     \* the fields handed to Query.select
  queryParams,  \* $queryParams.select: <<>> for null, <<s>> for the string s
  impl,         \* which of the two Query classes of the source the query is made from
  sort,         \* $queryParams.sort: the directives [key, order] of the sort calls
  params        \* <<>>, or <<the sort parameter request handed to the serializer>>

vars == <<and_or, expressions, stack, trace, built, leafIn, leafOut, selectIn, queryParams,
          impl, sort, params>>

builderVars == <<and_or, expressions, stack, trace, built>>
leafVars    == <<leafIn, leafOut>>
selectVars  == <<selectIn, queryParams>>
sortVars    == <<impl, sort, params>>

\* The two Query classes of the source.
QueryTs == "src/src/Query.ts"
Part002 == "src/unnamed/part_002"

\* A query on which sort and request have not been called (Query.ts:61-70).
NoSort == impl = Part002 /\ sort = <<>> /\ params = <<>>

(***************************************************************************)
(* Bounds                                                                  *)
(***************************************************************************)
MaxCalls == 4     \* calls that build the tree in one run
MaxStrLen == 3    \* length of the generated string values
MaxArrLen == 2    \* length of the generated array values
MaxNodes == 4     \* select nodes in the generated fields handed to select

(***************************************************************************)
(* Values and expressions (User.ts:11-25)                                  *)
(***************************************************************************)
Operator == {"eq", "neq", "gte", "gt", "lte", "lt", "search", "ilike", "like", "contains", "in"}

AndOr == {"and", "or"}

\* Value = string | string[] | number | number[] | boolean
StringValue(s)       == [type |-> "string",   s |-> s,  n |-> 0, b |-> FALSE, ss |-> <<>>, ns |-> <<>>]
NumberValue(n)       == [type |-> "number",   s |-> "", n |-> n, b |-> FALSE, ss |-> <<>>, ns |-> <<>>]
BooleanValue(b)      == [type |-> "boolean",  s |-> "", n |-> 0, b |-> b,     ss |-> <<>>, ns |-> <<>>]
StringArrayValue(ss) == [type |-> "string[]", s |-> "", n |-> 0, b |-> FALSE, ss |-> ss,   ns |-> <<>>]
NumberArrayValue(ns) == [type |-> "number[]", s |-> "", n |-> 0, b |-> FALSE, ss |-> <<>>, ns |-> ns]

Expression(key, operator, value) == [key |-> key, operator |-> operator, value |-> value]

NoExpression == Expression("", "eq", BooleanValue(FALSE))

\* An element of FilterBuilder.expressions: an Expression or a FilterBuilder.
ExpressionChild(e) == [isBuilder |-> FALSE, expr |-> e, ref |-> 0]
BuilderChild(b)    == [isBuilder |-> TRUE, expr |-> NoExpression, ref |-> b]

(***************************************************************************)
(* escape (User.ts:27-31)                                                  *)
(***************************************************************************)
\* U+0000 cannot be written in a TLA+ string: the form feed stands for it.
NUL == "\f"

RECURSIVE replaceBackslashQuote(_)
\* .replace(/[\\"]/g, '\\$&')
replaceBackslashQuote(str) ==
  IF Len(str) = 0 THEN ""
  ELSE LET c == SubSeq(str, 1, 1) IN
       (IF c \in {"\\", "\""} THEN "\\" \o c ELSE c) \o replaceBackslashQuote(Tail(str))

RECURSIVE replaceNul(_)
\* .replace(/\u0000/g, '\\0')
replaceNul(str) ==
  IF Len(str) = 0 THEN ""
  ELSE LET c == SubSeq(str, 1, 1) IN
       (IF c = NUL THEN "\\0" ELSE c) \o replaceNul(Tail(str))

escape_NulFirst(str) == replaceBackslashQuote(replaceNul(str))

escape(str) == replaceNul(replaceBackslashQuote(str))

(***************************************************************************)
(* buildExpression (User.ts:196-202)                                       *)
(***************************************************************************)
RECURSIVE join(_, _)
\* Array.prototype.join on an array of strings
join(arr, sep) ==
  IF Len(arr) = 0 THEN ""
  ELSE IF Len(arr) = 1 THEN arr[1]
  ELSE arr[1] \o sep \o join(Tail(arr), sep)

\* The text a template literal or join makes of a number or a boolean.
NumberToString(n) == ToString(n)

BooleanToString(b) == IF b THEN "true" ELSE "false"

isArray(value) == value.type \in {"string[]", "number[]"}

\* The elements of an array value as join sees them.
elementStrings(value) ==
  IF value.type = "string[]" THEN value.ss
  ELSE [i \in 1..Len(value.ns) |-> NumberToString(value.ns[i])]

buildExpression_QuotedElements(expr) ==
  LET v == expr.value
      value == IF isArray(v)
               THEN "(" \o join([i \in 1..Len(elementStrings(v)) |->
                                   IF v.type = "string[]"
                                   THEN "\"" \o escape(elementStrings(v)[i]) \o "\""
                                   ELSE elementStrings(v)[i]], ",") \o ")"
               ELSE IF v.type = "string" THEN "\"" \o escape(v.s) \o "\""
               ELSE IF v.type = "number" THEN NumberToString(v.n)
               ELSE BooleanToString(v.b)
  IN expr.key \o "." \o expr.operator \o "." \o value

buildExpression(expr) ==
  LET v == expr.value
      value == IF isArray(v)
               THEN "(" \o join(elementStrings(v), ",") \o ")"
               ELSE IF v.type = "string" THEN "\"" \o escape(v.s) \o "\""
               ELSE IF v.type = "number" THEN NumberToString(v.n)
               ELSE BooleanToString(v.b)
  IN expr.key \o "." \o expr.operator \o "." \o value

(***************************************************************************)
(* FilterBuilder (User.ts:77-204)                                          *)
(***************************************************************************)
\* constructor(and_or?: AndOr)
FilterBuilder_DefaultOr(arg) == IF arg = "undefined" THEN "or" ELSE arg

FilterBuilder(arg) == IF arg = "undefined" THEN "and" ELSE arg

\* Array.prototype.push
push_Unshift(arr, x) == <<x>> \o arr

push(arr, x) == Append(arr, x)

RECURSIVE build_NoEmptyCheck(_)
build_NoEmptyCheck(this) ==
  LET exprs == join([i \in 1..Len(expressions[this]) |->
                       LET expr == expressions[this][i] IN
                       IF expr.isBuilder THEN build_NoEmptyCheck(expr.ref)
                       ELSE buildExpression(expr.expr)], ",")
  IN and_or[this] \o "(" \o exprs \o ")"

RECURSIVE build(_)
build(this) ==
  IF Len(expressions[this]) = 0 THEN ""
  ELSE LET exprs == join([i \in 1..Len(expressions[this]) |->
                            LET expr == expressions[this][i] IN
                            IF expr.isBuilder THEN build(expr.ref)
                            ELSE buildExpression(expr.expr)], ",")
       IN and_or[this] \o "(" \o exprs \o ")"

\* One call made on a builder, as the caller sees it.
Call(method, this, arg, expr) ==
  [method |-> method, this |-> this, arg |-> arg, expr |-> expr]

\* The builder the running code calls: the one the caller constructed or, while
\* a callback runs, the builder handed to the innermost callback.
Builders == IF stack = <<>> THEN {1} ELSE {Head(stack).builder}

(***************************************************************************)
(* The calls a run draws from                                              *)
(***************************************************************************)
\* where, whereNot, ... whereIn (User.ts:125-167): each fixes the operator.
WrapperOperator ==
  [where |-> "eq", whereNot |-> "neq", whereGte |-> "gte", whereGt |-> "gt",
   whereLte |-> "lte", whereLt |-> "lt", whereLike |-> "like", whereILike |-> "ilike",
   whereSearch |-> "search", whereContains |-> "contains", whereIn |-> "in"]

WhereInputs ==
  { [method |-> "whereIn",  key |-> "id",         value |-> NumberArrayValue(<<1, 2, 3>>)],
    [method |-> "where",    key |-> "active",     value |-> BooleanValue(TRUE)],
    [method |-> "whereGte", key |-> "created_at", value |-> StringValue("2019-01-01")],
    [method |-> "where",    key |-> "x",          value |-> NumberValue(1)],
    [method |-> "where",    key |-> "y",          value |-> NumberValue(2)] }

CtorArgs == {"undefined", "and", "or"}

(***************************************************************************)
(* The operations of FilterBuilder                                         *)
(***************************************************************************)
\* addExpression (User.ts:170-174)
addExpression(this, key, operator, value) ==
  expressions' = [expressions EXCEPT
                    ![this] = push(@, ExpressionChild(Expression(key, operator, value)))]

\* addBooleanExpr (User.ts:113-122), up to the call of the callback
addBooleanExpr_AlwaysRelabel(this, expr_type) ==
  /\ and_or' = [and_or EXCEPT ![this] = expr_type]
  /\ expressions' = expressions
  /\ stack' = <<[this |-> this, builder |-> this]>> \o stack

addBooleanExpr_AlwaysNest(this, expr_type) ==
  /\ and_or' = Append(and_or, FilterBuilder(expr_type))
  /\ expressions' = Append(expressions, <<>>)
  /\ stack' = <<[this |-> this, builder |-> Len(and_or) + 1]>> \o stack

addBooleanExpr(this, expr_type) ==
  IF Len(expressions[this]) = 0
  THEN /\ and_or' = [and_or EXCEPT ![this] = expr_type]
       /\ expressions' = expressions
       /\ stack' = <<[this |-> this, builder |-> this]>> \o stack
  ELSE /\ and_or' = Append(and_or, FilterBuilder(expr_type))
       /\ expressions' = Append(expressions, <<>>)
       /\ stack' = <<[this |-> this, builder |-> Len(and_or) + 1]>> \o stack

\* where ... whereIn (User.ts:125-167)
Where(this, method, key, value) ==
  /\ Len(trace) <= MaxCalls
  /\ addExpression(this, key, WrapperOperator[method], value)
  /\ trace' = Append(trace, Call(method, this, "",
                                 Expression(key, WrapperOperator[method], value)))
  /\ built' = <<>>
  /\ UNCHANGED <<and_or, stack, leafVars, selectVars, sortVars>>

\* or (User.ts:93-97), up to the call of the callback
Or(this) ==
  /\ Len(trace) <= MaxCalls
  /\ addBooleanExpr(this, "or")
  /\ trace' = Append(trace, Call("or", this, "", NoExpression))
  /\ built' = <<>>
  /\ UNCHANGED <<leafVars, selectVars, sortVars>>

\* and (User.ts:107-111), up to the call of the callback
And(this) ==
  /\ Len(trace) <= MaxCalls
  /\ addBooleanExpr(this, "and")
  /\ trace' = Append(trace, Call("and", this, "", NoExpression))
  /\ built' = <<>>
  /\ UNCHANGED <<leafVars, selectVars, sortVars>>

\* The innermost running callback returns: addBooleanExpr goes on after the
\* call of the callback (User.ts:116 and 119-120) and or/and return.
CallbackReturn_NoPush ==
  /\ stack # <<>>
  /\ stack' = Tail(stack)
  /\ built' = <<>>
  /\ UNCHANGED <<and_or, expressions, trace, leafVars, selectVars, sortVars>>

CallbackReturn ==
  /\ stack # <<>>
  /\ LET frame == Head(stack) IN
       expressions' = IF frame.builder = frame.this
                      THEN expressions
                      ELSE [expressions EXCEPT
                              ![frame.this] = push(@, BuilderChild(frame.builder))]
  /\ stack' = Tail(stack)
  /\ built' = <<>>
  /\ UNCHANGED <<and_or, trace, leafVars, selectVars, sortVars>>

\* build (User.ts:182-194)
Build_Consuming(this) ==
  /\ built' = <<[this |-> this, ret |-> build(this),
                 again |-> built # <<>> /\ built[1].this = this]>>
  /\ expressions' = [expressions EXCEPT ![this] = IF Len(@) = 0 THEN @ ELSE Tail(@)]
  /\ UNCHANGED <<and_or, stack, trace, leafVars, selectVars, sortVars>>

Build(this) ==
  /\ built' = <<[this |-> this, ret |-> build(this),
                 again |-> built # <<>> /\ built[1].this = this]>>
  /\ UNCHANGED <<and_or, expressions, stack, trace, leafVars, selectVars, sortVars>>

Init ==
  /\ \E arg \in CtorArgs :
       /\ and_or = <<FilterBuilder(arg)>>
       /\ trace = <<Call("constructor", 1, arg, NoExpression)>>
  /\ expressions = <<<<>>>>
  /\ stack = <<>>
  /\ built = <<>>
  /\ leafIn = NoExpression
  /\ leafOut = <<>>
  /\ selectIn = <<>>
  /\ queryParams = <<>>
  /\ NoSort

Next ==
  \/ \E this \in Builders, w \in WhereInputs : Where(this, w.method, w.key, w.value)
  \/ \E this \in Builders : Or(this)
  \/ \E this \in Builders : And(this)
  \/ CallbackReturn
  \/ \E this \in Builders : Build(this)

Spec == Init /\ [][Next]_vars

(***************************************************************************)
(* buildExpression on its own: the expression is drawn, then formatted     *)
(***************************************************************************)
Chars == {"a", "\"", "\\", NUL, ","}

RECURSIVE StringsUpTo(_)
StringsUpTo(n) ==
  IF n = 0 THEN {""}
  ELSE LET S == StringsUpTo(n - 1) IN S \cup {s \o c : s \in S, c \in Chars}

Elements == {"a", "b,c", "(", "\""}

Numbers == {0, 1, 18, -5}

RECURSIVE ArraysUpTo(_, _)
ArraysUpTo(S, n) ==
  IF n = 0 THEN {<<>>}
  ELSE LET A == ArraysUpTo(S, n - 1) IN A \cup {Append(a, x) : a \in A, x \in S}

LeafValues ==
  {StringValue(s) : s \in StringsUpTo(MaxStrLen) \cup {"John \"Doe\"", "2019-01-01"}}
    \cup {NumberValue(n) : n \in Numbers}
    \cup {BooleanValue(b) : b \in BOOLEAN}
    \cup {StringArrayValue(a) : a \in ArraysUpTo(Elements, MaxArrLen)}
    \cup {NumberArrayValue(a) : a \in ArraysUpTo(Numbers, MaxArrLen)}

LeafInputs == {Expression(k, o, v) : k \in {"name", "id"}, o \in Operator, v \in LeafValues}

BuildExpression ==
  /\ leafOut = <<>>
  /\ leafOut' = <<buildExpression(leafIn)>>
  /\ UNCHANGED <<leafIn, builderVars, selectVars, sortVars>>

InitLeaf ==
  /\ leafIn \in LeafInputs
  /\ leafOut = <<>>
  /\ and_or = <<FilterBuilder("undefined")>>
  /\ expressions = <<<<>>>>
  /\ stack = <<>>
  /\ trace = <<Call("constructor", 1, "undefined", NoExpression)>>
  /\ built = <<>>
  /\ selectIn = <<>>
  /\ queryParams = <<>>
  /\ NoSort

NextLeaf == BuildExpression

SpecLeaf == InitLeaf /\ [][NextLeaf]_vars

(***************************************************************************)
(* Query.select (part_002:142-154)                                         *)
(***************************************************************************)
\* SimplifiedSelect = string | [string, SimplifiedSelect[]]   (part_002:86)
Field(name) == [isString |-> TRUE, name |-> name, children |-> <<>>]
Relation(name, children) == [isString |-> FALSE, name |-> name, children |-> children]

buildSelect_Shallow(flds) ==
  join([i \in 1..Len(flds) |->
          LET value == flds[i] IN
          IF value.isString THEN value.name
          ELSE value.name \o "(" \o join([j \in 1..Len(value.children) |->
                                            value.children[j].name], ",") \o ")"], ",")

RECURSIVE buildSelect(_)
buildSelect(flds) ==
  join([i \in 1..Len(flds) |->
          LET value == flds[i] IN
          IF value.isString THEN value.name
          ELSE value.name \o "(" \o buildSelect(value.children) \o ")"], ",")

FieldNames == {"*", "body"}
RelationNames == {"posts", "comments"}

\* The select nodes made of k nodes in all, bySize[j + 1] being the sequences of
\* select nodes made of j nodes in all, for every j < k.
NodesOfSize(bySize, k) ==
  (IF k = 1 THEN {Field(n) : n \in FieldNames} ELSE {})
    \cup {Relation(n, c) : n \in RelationNames, c \in bySize[k]}

RECURSIVE SelectsBySize(_)
\* <<S0, ..., Sk>>, Sj being the sequences of select nodes made of j nodes in all.
SelectsBySize(k) ==
  IF k = 0 THEN << {<<>>} >>
  ELSE LET bySize == SelectsBySize(k - 1) IN
       Append(bySize,
              UNION { {<<h>> \o t : h \in NodesOfSize(bySize, j), t \in bySize[k - j + 1]} :
                      j \in 1..k })

\* ['*', ['posts', ['*', ['comments', ['body']]]]]   (part_002:68)
SelectExample ==
  <<Field("*"),
    Relation("posts", <<Field("*"), Relation("comments", <<Field("body")>>)>>)>>

SelectInputs ==
  LET bySize == SelectsBySize(MaxNodes) IN
  UNION {bySize[k + 1] : k \in 0..MaxNodes} \cup {SelectExample}

\* select (part_002:142-146)
Select ==
  /\ queryParams = <<>>
  /\ queryParams' = <<buildSelect(selectIn)>>
  /\ UNCHANGED <<selectIn, builderVars, leafVars, sortVars>>

InitSelect ==
  /\ selectIn \in SelectInputs
  /\ queryParams = <<>>
  /\ and_or = <<FilterBuilder("undefined")>>
  /\ expressions = <<<<>>>>
  /\ stack = <<>>
  /\ trace = <<Call("constructor", 1, "undefined", NoExpression)>>
  /\ built = <<>>
  /\ leafIn = NoExpression
  /\ leafOut = <<>>
  /\ NoSort

NextSelect == Select

SpecSelect == InitSelect /\ [][NextSelect]_vars

(***************************************************************************)
(* Query.sort, formatSort and request (Query.ts:153-157, 220-240;          *)
(* part_002:213-217, 278-298)                                              *)
(***************************************************************************)
MaxSorts == 3     \* sort calls made on one query

SortOrder == {"asc", "desc"}

SortKeys == {"name", "created_at"}

\* What a JavaScript expression evaluates to here: undefined, or an array.
Undefined == [isUndefined |-> TRUE, array |-> <<>>]
Array(a) == [isUndefined |-> FALSE, array |-> a]

\* The arrow function handed to sorts.map (Query.ts:221-228, part_002:279-286)
formatOne(s) == IF s.order = "asc" THEN s.key ELSE "!" \o s.key

\* formatSort: part_002:278-287 returns the mapped array; Query.ts:220-229 maps
\* and returns nothing.
formatSort(sorts) ==
  IF impl = Part002
  THEN Array([i \in 1..Len(sorts) |-> formatOne(sorts[i])])
  ELSE Undefined

\* sort (Query.ts:153-157, part_002:213-217)
Sort(key, order) ==
  /\ Len(sort) < MaxSorts
  /\ sort' = Append(sort, [key |-> key, order |-> order])
  /\ params' = <<>>
  /\ UNCHANGED <<impl, builderVars, leafVars, selectVars>>

\* request, up to the params it hands to axios (Query.ts:231-240, part_002:289-298)
Request ==
  /\ params' = <<formatSort(sort)>>
  /\ UNCHANGED <<impl, sort, builderVars, leafVars, selectVars>>

InitSort ==
  /\ impl \in {QueryTs, Part002}
  /\ sort = <<>>
  /\ params = <<>>
  /\ and_or = <<FilterBuilder("undefined")>>
  /\ expressions = <<<<>>>>
  /\ stack = <<>>
  /\ trace = <<Call("constructor", 1, "undefined", NoExpression)>>
  /\ built = <<>>
  /\ leafIn = NoExpression
  /\ leafOut = <<>>
  /\ selectIn = <<>>
  /\ queryParams = <<>>

NextSort ==
  \/ \E key \in SortKeys, order \in SortOrder : Sort(key, order)
  \/ Request

SpecSort == InitSort /\ [][NextSort]_vars

(***************************************************************************)
(* The claims                                                              *)
(***************************************************************************)
\* Every builder constructed so far.
AllBuilders == 1..Len(and_or)

\* This step is the call this.method(callback), up to the call of the callback.
CallStep(method, this) == trace' = Append(trace, Call(method, this, "", NoExpression))

\* This step is a call of where ... whereIn.
WhereStep == /\ Len(trace') = Len(trace) + 1
             /\ trace'[Len(trace')].method \in DOMAIN WrapperOperator

\* This step is the return of the innermost callback.
ReturnStep == stack # <<>> /\ stack' = Tail(stack)

\* How often builder b is an element of some builder's expressions.
Occurrences(exprs, b) ==
  Cardinality({<<g, i>> \in (1..Len(exprs)) \X (1..MaxCalls + 2) :
                 i <= Len(exprs[g]) /\ exprs[g][i] = BuilderChild(b)})

IsPrefix(a, b) == Len(a) <= Len(b) /\ SubSeq(b, 1, Len(a)) = a

WhereX == Call("where", 1, "", Expression("x", "eq", NumberValue(1)))
WhereY == Call("where", 1, "", Expression("y", "eq", NumberValue(2)))

C1_ExampleCalls ==
  /\ Len(trace) = 4
  /\ trace[2] = Call("or", 1, "", NoExpression)
  /\ trace[3] = WhereX
  /\ trace[4] = WhereY

C1_Example ==
  C1_ExampleCalls =>
    /\ build(1) = "or(x.eq.1,y.eq.2)"
    /\ built # <<>> /\ built[1].this = 1 => built[1].ret = "or(x.eq.1,y.eq.2)"

C1_Step ==
  /\ \A g \in AllBuilders, m \in AndOr :
       CallStep(m, g) /\ Len(expressions[g]) = 0 =>
         /\ Len(and_or') = Len(and_or)
         /\ and_or' = [and_or EXCEPT ![g] = m]
         /\ expressions' = expressions
         /\ stack' = <<[this |-> g, builder |-> g]>> \o stack
  /\ WhereStep =>
       LET c == trace'[Len(trace')] IN
         /\ c.this \in Builders
         /\ expressions' = [expressions EXCEPT ![c.this] = Append(@, ExpressionChild(c.expr))]

\* C1: and(cb) or or(cb) called on a builder with zero children creates no
\* builder; it sets that builder's and_or to the requested combinator and runs
\* cb with that same builder, so what cb adds to it becomes its direct
\* children; or(cb) on a fresh builder with cb adding where("x",1) and
\* where("y",2) builds to or(x.eq.1,y.eq.2).
C1_EmptyGroupIsRelabelled == [](C1_Example) /\ [][C1_Step]_vars

C1_Witness ==
  /\ C1_ExampleCalls
  /\ stack = <<>>
  /\ built = <<[this |-> 1, ret |-> "or(x.eq.1,y.eq.2)", again |-> FALSE]>>

C2_Step ==
  /\ \A g \in AllBuilders, m \in AndOr :
       CallStep(m, g) /\ Len(expressions[g]) >= 1 =>
         LET fresh == Len(and_or) + 1 IN
           /\ fresh \notin AllBuilders
           /\ and_or' = Append(and_or, m)
           /\ expressions' = Append(expressions, <<>>)
           /\ stack' = <<[this |-> g, builder |-> fresh]>> \o stack
           /\ Occurrences(expressions', fresh) = 0
  /\ WhereStep /\ stack # <<>> /\ trace'[Len(trace')].this = Head(stack).builder =>
       LET c == trace'[Len(trace')] IN
         expressions'[c.this] = Append(expressions[c.this], ExpressionChild(c.expr))
  /\ ReturnStep /\ Head(stack).builder # Head(stack).this =>
       LET frame == Head(stack) IN
         /\ expressions' = [expressions EXCEPT
                              ![frame.this] = Append(@, BuilderChild(frame.builder))]
         /\ Occurrences(expressions, frame.builder) = 0
         /\ Occurrences(expressions', frame.builder) = 1
         /\ and_or' = and_or
  /\ \A i \in 1..Len(stack) :
       stack[i].builder # stack[i].this /\ i + Len(stack') > Len(stack) =>
         LET g == stack[i].this IN
           /\ and_or'[g] = and_or[g]
           /\ IsPrefix(expressions[g], expressions'[g])

\* C2: and(cb) or or(cb) called on a builder with one or more children
\* constructs a fresh builder with the requested combinator, runs cb with it,
\* so what cb adds to it becomes its children, and then appends it exactly once,
\* as the last child of the calling builder, whose combinator and earlier
\* children are unchanged.
C2_NonEmptyGroupNests == [][C2_Step]_vars

C2_Witness ==
  /\ stack = <<>>
  /\ Len(and_or) = 2
  /\ Len(expressions[1]) = 2
  /\ expressions[1][2] = BuilderChild(2)
  /\ Len(expressions[2]) = 2
  /\ and_or[1] # and_or[2]

C3_OriginalStep ==
  /\ \A g \in 2..Len(and_or) : and_or'[g] = and_or[g]
  /\ and_or'[1] # and_or[1] =>
       /\ Len(expressions[1]) = 0
       /\ \E m \in AndOr : CallStep(m, 1)
       /\ ~ \E i \in 2..Len(trace) : trace[i].method \in AndOr /\ trace[i].this = 1

\* C3 as stated: the combinator of every builder but the first stays the one it
\* was constructed with, and that of the first is overwritten at most once, by
\* the first and()/or() call made on it while it is empty.
C3_Original == [][C3_OriginalStep]_vars

C3_AmendedStep ==
  \A g \in AllBuilders :
    and_or'[g] # and_or[g] => Len(expressions[g]) = 0 /\ CallStep(and_or'[g], g)

\* C3 as amended: the combinator of a builder, the first or a nested one,
\* changes only in an and()/or() call made on that builder while it has zero
\* children, and becomes the combinator that call asks for; a builder that has
\* a child keeps its combinator.
C3_CombinatorChangesOnlyWhileEmpty == [][C3_AmendedStep]_vars

C3_Witness ==
  /\ Len(trace) = 4
  /\ trace[2].method \in DOMAIN WrapperOperator
  /\ trace[3] = Call("or", 1, "", NoExpression)
  /\ trace[4] = Call("and", 2, "", NoExpression)
  /\ and_or[2] = "and"

C4_Calls ==
  /\ Len(trace) = 5
  /\ trace[1] = Call("constructor", 1, "undefined", NoExpression)
  /\ trace[2] = Call("whereIn", 1, "", Expression("id", "in", NumberArrayValue(<<1, 2, 3>>)))
  /\ trace[3] = Call("or", 1, "", NoExpression)
  /\ trace[4] = Call("where", 2, "", Expression("active", "eq", BooleanValue(TRUE)))
  /\ trace[5] = Call("whereGte", 2, "",
                     Expression("created_at", "gte", StringValue("2019-01-01")))
  /\ stack = <<>>
  /\ built # <<>>
  /\ built[1].this = 1

NoExpressionAdded == \A i \in 2..Len(trace) : trace[i].method \in AndOr

\* C5: a builder to which no expression has been added builds to the empty
\* string, whatever its combinator and whatever and()/or() calls with callbacks
\* that add nothing were made on it; a builder with zero children builds to ""
\* under "and" and under "or".
C5_EmptyBuildsToEmptyString ==
  /\ NoExpressionAdded =>
       /\ build(1) = ""
       /\ built # <<>> => built[1].ret = ""
  /\ \A g \in AllBuilders : Len(expressions[g]) = 0 => build(g) = ""

C5_Witness ==
  /\ NoExpressionAdded
  /\ Len(trace) >= 3
  /\ stack = <<>>
  /\ and_or[1] = "or"
  /\ trace[1].arg = "and"
  /\ built = <<[this |-> 1, ret |-> "", again |-> FALSE]>>

RECURSIVE SumLen(_)
\* The lengths of the strings of a sequence, added up.
SumLen(strs) == IF Len(strs) = 0 THEN 0 ELSE Len(Head(strs)) + SumLen(Tail(strs))

\* What each child of builder g serializes to, in the order of expressions[g].
ChildStrings(g) ==
  [i \in 1..Len(expressions[g]) |->
     IF expressions[g][i].isBuilder THEN build(expressions[g][i].ref)
     ELSE buildExpression(expressions[g][i].expr)]

\* out holds, after combinator and "(", the strings parts one after the other in
\* their order, one comma between two of them, and then ")".
HoldsInOrder(out, combinator, parts) ==
  LET n == Len(parts)
      start(i) == Len(combinator) + 2 + SumLen(SubSeq(parts, 1, i - 1)) + (i - 1)
  IN /\ Len(out) = Len(combinator) + 2 + SumLen(parts) + (IF n = 0 THEN 0 ELSE n - 1)
     /\ SubSeq(out, 1, Len(combinator) + 1) = combinator \o "("
     /\ SubSeq(out, Len(out), Len(out)) = ")"
     /\ \A i \in 1..n :
          /\ SubSeq(out, start(i), start(i) + Len(parts[i]) - 1) = parts[i]
          /\ i > 1 => SubSeq(out, start(i) - 1, start(i) - 1) = ","

C9_Built ==
  built # <<>> /\ Len(expressions[built[1].this]) >= 1 =>
    HoldsInOrder(built[1].ret, and_or[built[1].this], ChildStrings(built[1].this))

C9_Step ==
  /\ \A g \in AllBuilders :
       \/ expressions'[g] = expressions[g]
       \/ /\ Len(expressions'[g]) = Len(expressions[g]) + 1
          /\ IsPrefix(expressions[g], expressions'[g])
  /\ WhereStep =>
       LET c == trace'[Len(trace')] IN
         expressions'[c.this][Len(expressions'[c.this])] = ExpressionChild(c.expr)

\* C9: the children of every builder appear in the output of build() in the
\* order in which they were appended to that builder, one serialized child per
\* append: a call only appends one child at the end, it never reorders, merges
\* or drops a child, and an expression added twice appears twice.
C9_ChildrenInAppendOrder == [](C9_Built) /\ [][C9_Step]_vars

C9_Witness ==
  /\ stack = <<>>
  /\ Len(expressions[1]) = 3
  /\ expressions[1][1] = expressions[1][2]
  /\ expressions[1][3] = BuilderChild(2)
  /\ Len(expressions[2]) = 1
  /\ built # <<>>
  /\ built[1].this = 1

C10_Step ==
  built' # <<>> =>
    /\ and_or' = and_or
    /\ expressions' = expressions
    /\ built'[1].again =>
         /\ built # <<>>
         /\ built[1].this = built'[1].this
         /\ built[1].ret = built'[1].ret

\* C10: build() changes no builder's combinator or children, so two build()
\* calls in a row on a builder return the same string.
C10_BuildIsIdempotent == [][C10_Step]_vars

C10_Witness ==
  /\ built # <<>>
  /\ built[1].again
  /\ built[1].this = 1
  /\ Len(expressions[1]) >= 2
  /\ \E i \in 1..Len(expressions[1]) : expressions[1][i].isBuilder

\* What the claim says one character of a string value becomes.
ClaimedChar(c) ==
  IF c = "\\" THEN "\\\\"
  ELSE IF c = "\"" THEN "\\\""
  ELSE IF c = NUL THEN "\\0"
  ELSE c

RECURSIVE ClaimedEscape(_)
ClaimedEscape(str) ==
  IF Len(str) = 0 THEN ""
  ELSE ClaimedEscape(SubSeq(str, 1, Len(str) - 1)) \o ClaimedChar(SubSeq(str, Len(str), Len(str)))

LeafPrefix == leafIn.key \o "." \o leafIn.operator \o "."

JohnDoe == Expression("name", "eq", StringValue("John \"Doe\""))

ClaimedElements(value) ==
  IF value.type = "string[]" THEN value.ss
  ELSE [i \in 1..Len(value.ns) |-> ToString(value.ns[i])]

\* C7: a leaf whose value is a sequence is rendered with the value as "(", the
\* elements in their order with one comma between two of them, and ")"; no
\* element is quoted or escaped, so a comma, a parenthesis or a double quote of
\* a string element is in the output as it is.
C7_ArraysJoinedVerbatim ==
  leafOut # <<>> /\ leafIn.value.type \in {"string[]", "number[]"} =>
    HoldsInOrder(leafOut[1], leafIn.key \o "." \o leafIn.operator \o ".",
                 ClaimedElements(leafIn.value))

C7_Witness ==
  /\ leafIn = Expression("name", "in", StringArrayValue(<<"b,c", "\"">>))
  /\ leafOut = <<"name.in.(b,c,\")">>

\* C8: select serializes a sequence of select nodes by mapping a field name to
\* itself and a relation [name, children] to name(<children serialized>), to any
\* depth, and joining the results of each level with commas in the given order;
\* ['*', ['posts', ['*', ['comments', ['body']]]]] gives *,posts(*,comments(body)).
C8_SelectSerialization ==
  queryParams # <<>> =>
    LET s == queryParams[1]
        f == selectIn
    IN /\ Len(f) = 0 => s = ""
       /\ Len(f) = 1 /\ f[1].isString => s = f[1].name
       /\ Len(f) = 1 /\ ~f[1].isString =>
            s = f[1].name \o "(" \o buildSelect(f[1].children) \o ")"
       /\ Len(f) >= 2 => s = buildSelect(<<f[1]>>) \o "," \o buildSelect(Tail(f))
       /\ f = SelectExample => s = "*,posts(*,comments(body))"

C8_Witness == selectIn = SelectExample /\ queryParams = <<"*,posts(*,comments(body))">>

\* C11: the sort parameter request hands to the parameter serializer is the
\* list, in call order, of the keys of the sort calls, each with "!" before it
\* when its order is desc and as it is when asc, in both Query classes.
C11_SortHandedFormatted ==
  params # <<>> =>
    /\ ~params[1].isUndefined
    /\ Len(params[1].array) = Len(sort)
    /\ \A i \in 1..Len(sort) :
         params[1].array[i] = IF sort[i].order = "desc" THEN "!" \o sort[i].key
                              ELSE sort[i].key

\* The builders that are a child of a builder.
ChildBuilders ==
  {expressions[g][i].ref : <<g, i>> \in
     {<<g, i>> \in AllBuilders \X (1..MaxCalls + 2) :
        i <= Len(expressions[g]) /\ expressions[g][i].isBuilder}}

\* str holds the two characters pair somewhere.
HasPair(str, pair) == \E i \in 1..Len(str) - 1 : SubSeq(str, i, i + 1) = pair

\* C12: no builder that is a child of a builder has zero children, so what
\* build() returns never holds "(,", ",," or ",)".
C12_NoEmptyChild ==
  /\ \A b \in ChildBuilders : Len(expressions[b]) >= 1
  /\ built # <<>> => \A pair \in {"(,", ",,", ",)"} : ~HasPair(built[1].ret, pair)

====
